---------------------------- MODULE Spec2Model ----------------------------
(***************************************************************************)
(* Model of adcpy/transect_average.py: the driver DWR_transect_average,    *)
(* which groups pre-processed ADCP transects, bin-averages every group,    *)
(* refines the averaged field and hands it to writers and plotters.        *)
(*                                                                         *)
(* Units: lengths in metres except avg_dz (centimetres), times in minutes, *)
(* the standard-deviation threshold in whole standard deviations.          *)
(***************************************************************************)
EXTENDS Integers, Sequences, FiniteSets, TLC

(***************************************************************************)
(* Bounds of the model.                                                    *)
(***************************************************************************)
MaxTransects == 3

MaxLoaded == 3

MaxSamples == 2

(***************************************************************************)
(* Literals of the script.                                                 *)
(***************************************************************************)
avg_max_gap_m == 30

avg_max_gap_minutes == 20

avg_max_group_size == 6

SdDropArg == 3

KernelSizeArg == 3

KernelThreshold == 2

NumComponents == 3

(***************************************************************************)
(* Small helpers.                                                          *)
(***************************************************************************)
Abs(n) == IF n < 0 THEN -n ELSE n

RECURSIVE Flatten(_)
Flatten(ss) == IF ss = <<>> THEN <<>> ELSE Head(ss) \o Flatten(Tail(ss))

Range(s) == {s[i] : i \in 1..Len(s)}

(***************************************************************************)
(* Transects.  A transect carries its identifier, the position of its      *)
(* representative endpoint along the channel and its start and end time.   *)
(* TransectDuration is the length of one survey pass in the inputs.        *)
(***************************************************************************)
TransectDuration == 5

Positions == {0, 20, 50}

TimeGaps == {5, 20, 25}

\* The time-ordered transect lists of a given length: every transect starts
\* one of TimeGaps after the end of the one before it.
RECURSIVE OrderedLists(_, _, _)
OrderedLists(n, xs, gaps) ==
  IF n = 0 THEN {<<>>}
  ELSE LET shorter == OrderedLists(n - 1, xs, gaps)
       IN  { IF n = 1
               THEN <<[id |-> 1, x |-> x, t_start |-> 0, t_end |-> TransectDuration]>>
               ELSE Append(s, [id |-> n, x |-> x,
                               t_start |-> s[n - 1].t_end + g,
                               t_end |-> s[n - 1].t_end + g + TransectDuration])
             : s \in shorter, x \in xs, g \in gaps }

\* The same list in another order of arrival: as loaded, reversed, or with
\* its first two transects exchanged.
Arrivals(s) ==
  { s,
    [i \in 1..Len(s) |-> s[Len(s) + 1 - i]],
    [i \in 1..Len(s) |-> IF Len(s) >= 2 /\ i <= 2 THEN s[3 - i] ELSE s[i]] }

(***************************************************************************)
(* Grouping engine: group_adcp_obs_by_spacetime (spec 4.1).                *)
(***************************************************************************)
\* Insertion of a transect into a list ordered by start time; a transect
\* goes after those that start no later than it does.
RECURSIVE InsertByStart(_, _)
InsertByStart(t, s) ==
  IF s = <<>> THEN <<t>>
  ELSE IF Head(s).t_start <= t.t_start
         THEN <<Head(s)>> \o InsertByStart(t, Tail(s))
         ELSE <<t>> \o s

RECURSIVE SortByStart(_)
SortByStart(s) ==
  IF s = <<>> THEN <<>>
  ELSE InsertByStart(s[Len(s)], SortByStart(SubSeq(s, 1, Len(s) - 1)))

\* The distance between the representative endpoints of two transects.
SpatialGap(a, b) == Abs(a.x - b.x)

\* The time from the end of the earlier transect to the start of the later.
TemporalGap(a, b) == b.t_start - a.t_end

Adjacent(a, b, max_gap_m, max_gap_minutes) ==
  /\ SpatialGap(a, b) <= max_gap_m
  /\ TemporalGap(a, b) <= max_gap_minutes

\* Extends without the size limit.
ExtendsNoSizeLimit(cur, t, lim) ==
  Adjacent(cur[Len(cur)], t, lim.max_gap_m, lim.max_gap_minutes)

\* Extends closing a group one member short of the size limit.
ExtendsClosesEarly(cur, t, lim) ==
  /\ Adjacent(cur[Len(cur)], t, lim.max_gap_m, lim.max_gap_minutes)
  /\ Len(cur) + 1 < lim.max_group_size

\* Whether the open group cur takes the transect t: it is adjacent to the
\* last member and the group is not full.
Extends(cur, t, lim) ==
  /\ Adjacent(cur[Len(cur)], t, lim.max_gap_m, lim.max_gap_minutes)
  /\ Len(cur) < lim.max_group_size

\* The engine's state while it runs: the time-ordered transects not yet
\* grouped, the closed groups and the open group.
GroupStart(transects) ==
  [todo |-> SortByStart(transects), closed |-> <<>>, cur |-> <<>>]

GroupFinished(g) == g.todo = <<>> /\ g.cur = <<>>

\* GroupStep losing the transect that did not fit when it closes a group.
GroupStepDropsOnClose(g, lim) ==
  IF g.cur = <<>>
    THEN [g EXCEPT !.cur = <<Head(g.todo)>>, !.todo = Tail(g.todo)]
  ELSE IF g.todo # <<>> /\ Extends(g.cur, Head(g.todo), lim)
    THEN [g EXCEPT !.cur = Append(g.cur, Head(g.todo)), !.todo = Tail(g.todo)]
  ELSE [g EXCEPT !.closed = Append(g.closed, g.cur), !.cur = <<>>,
                 !.todo = IF g.todo = <<>> THEN <<>> ELSE Tail(g.todo)]

\* One step of the greedy pass: open a group with the next transect, append
\* the next transect to the open group, or close the open group.
GroupStep(g, lim) ==
  IF g.cur = <<>>
    THEN [g EXCEPT !.cur = <<Head(g.todo)>>, !.todo = Tail(g.todo)]
  ELSE IF g.todo # <<>> /\ Extends(g.cur, Head(g.todo), lim)
    THEN [g EXCEPT !.cur = Append(g.cur, Head(g.todo)), !.todo = Tail(g.todo)]
  ELSE [g EXCEPT !.closed = Append(g.closed, g.cur), !.cur = <<>>]

RECURSIVE GroupRun(_, _)
GroupRun(g, lim) ==
  IF GroupFinished(g) THEN g.closed ELSE GroupRun(GroupStep(g, lim), lim)

group_adcp_obs_by_spacetime(transects, max_gap_m, max_gap_minutes, max_group_size) ==
  GroupRun(GroupStart(transects),
           [max_gap_m |-> max_gap_m, max_gap_minutes |-> max_gap_minutes,
            max_group_size |-> max_group_size])

(***************************************************************************)
(* The script options (lines 29-49).  A run reads them and never writes    *)
(* them; the model draws them once, in Init.                               *)
(***************************************************************************)
Toggles ==
  {"avg_std_interp", "avg_save_netcdf", "avg_save_csv", "avg_plot_xy",
   "avg_plot_avg_n_sd", "avg_plot_mean_vectors",
   "avg_plot_secondary_circulation", "avg_plot_UVW_velocity_array",
   "avg_plot_flow_summmary", "avg_save_plots", "avg_show_plots"}

\* The script's own setting of the boolean options.
DefaultToggles == Toggles \ {"avg_show_plots"}

ToggleProfiles ==
  { DefaultToggles,
    Toggles,
    {},
    DefaultToggles \ {"avg_save_plots"},
    {"avg_save_csv", "avg_plot_avg_n_sd", "avg_save_plots"},
    {"avg_save_netcdf", "avg_plot_xy", "avg_plot_flow_summmary", "avg_save_plots"} }

\* The bin resolutions tried: the script's own, then a zero horizontal and
\* a negative vertical resolution.
Resolutions ==
  << [avg_dxy |-> 2, avg_dz |-> 25],
     [avg_dxy |-> 0, avg_dz |-> 25],
     [avg_dxy |-> 2, avg_dz |-> -25] >>

Rotations == {"Rozovski", "None"}

StdDrops == {0, 2, 3}

SmoothKernels == {0, 1, 3, 5}

Config(r, rot, sd, k, p) ==
  [avg_dxy |-> r.avg_dxy, avg_dz |-> r.avg_dz, avg_rotation |-> rot,
   avg_std_drop |-> sd, avg_smooth_kernel |-> k, on |-> p]

\* The transect lists the preprocessor may hand over: up to MaxLoaded
\* transects five minutes apart, the first at position 0, each of the others
\* at position 0 or 50.
LoadedLists ==
  { s \in UNION { OrderedLists(n, {0, 50}, {5}) : n \in 0..MaxLoaded } :
      s = <<>> \/ s[1].x = 0 }

(***************************************************************************)
(* State of one run of DWR_transect_average.                               *)
(***************************************************************************)
VARIABLES
  conf,             \* the script options of this run
  transects,        \* the list returned by the preprocessor
  grps_to_average,  \* the groups returned by the grouping engine
  gi,               \* position of the for loop in grps_to_average (0: before)
  grp_num,          \* the group counter
  uvw_i,            \* the index i of the loop over the velocity components
  pc,               \* the statement the run is at
  calls,            \* every call made to a collaborator so far, in order
  files,            \* every file written so far, in order
  raised            \* the statement whose call raised ("none": no exception)

\* State of one call of the grouping engine.
VARIABLES
  g_pc,             \* "idle", "start", "run" or "done"
  g_in,             \* the transects passed in
  g_lim,            \* max_gap_m, max_gap_minutes and max_group_size
  g,                \* the engine's working state
  g_out             \* the groups returned

\* State of one call of the bin accumulator.
VARIABLES
  a_pc,             \* "idle", "run" or "done"
  a_samples,        \* the velocity samples of the group, in input order
  a_k,              \* how many samples have been accumulated
  a_acc,            \* per cell and component: running n, sum, sum of squares
  a_ddof,           \* the divisor correction of the standard deviation
  a_field           \* the averaged field returned

driver == <<conf, transects, grps_to_average, gi, grp_num, uvw_i, pc, calls,
            files, raised>>

engine == <<g_pc, g_in, g_lim, g, g_out>>

accumulator == <<a_pc, a_samples, a_k, a_acc, a_ddof, a_field>>

rest == <<engine, accumulator>>

vars == <<driver, engine, accumulator>>

\* '%03i' % n: the decimal digits of n, padded with zeros to three places.
DigitChar(d) ==
  CASE d = 0 -> "0" [] d = 1 -> "1" [] d = 2 -> "2" [] d = 3 -> "3"
    [] d = 4 -> "4" [] d = 5 -> "5" [] d = 6 -> "6" [] d = 7 -> "7"
    [] d = 8 -> "8" [] d = 9 -> "9"

RECURSIVE Decimal(_)
Decimal(n) ==
  IF n < 10 THEN DigitChar(n) ELSE Decimal(n \div 10) \o DigitChar(n % 10)

Fmt03i(n) ==
  LET d == Decimal(n)
  IN  IF Len(d) = 1 THEN "00" \o d ELSE IF Len(d) = 2 THEN "0" \o d ELSE d

\* The file names of the products of group number n (below outpath).
FileName(n, suffix) == "group" \o Fmt03i(n) \o suffix

uvw == <<"U", "V", "W">>

\* grp_num += 1 left out.
GrpNumStays(n) == n

\* grp_num += 1
GrpNumInc(n) == n + 1

\* The statements of the loop body in the order of a plausible reordering:
\* smoothing before the two outlier passes.
NextPcSmoothFirst(p) ==
  CASE p = "xy" -> "average"
    [] p = "average" -> "rotate"
    [] p = "rotate" -> "smooth"
    [] p = "smooth" -> "sd_elev"
    [] p = "sd_elev" -> "sd_ens"
    [] p = "sd_ens" -> "csv"
    [] p = "csv" -> "nc"
    [] p = "nc" -> "avg_n_sd"
    [] p = "avg_n_sd" -> "mean_vectors"
    [] p = "mean_vectors" -> "secondary"
    [] p = "secondary" -> "uvw_array"
    [] p = "uvw_array" -> "flow_summary"
    [] p = "flow_summary" -> "show"
    [] p = "show" -> "close"
    [] p = "close" -> "for"

\* The statement that follows statement p of the loop body.
NextPc(p) ==
  CASE p = "xy" -> "average"
    [] p = "average" -> "rotate"
    [] p = "rotate" -> "sd_elev"
    [] p = "sd_elev" -> "sd_ens"
    [] p = "sd_ens" -> "smooth"
    [] p = "smooth" -> "csv"
    [] p = "csv" -> "nc"
    [] p = "nc" -> "avg_n_sd"
    [] p = "avg_n_sd" -> "mean_vectors"
    [] p = "mean_vectors" -> "secondary"
    [] p = "secondary" -> "uvw_array"
    [] p = "uvw_array" -> "flow_summary"
    [] p = "flow_summary" -> "show"
    [] p = "show" -> "close"
    [] p = "close" -> "for"

IsOn(option) == option \in conf.on

\* Whether statement p, under the options of the run, calls a collaborator
\* (and so may raise).
HasCall(p) ==
  CASE p = "load" -> TRUE
    [] p = "xy" -> IsOn("avg_plot_xy")
    [] p = "average" -> TRUE
    [] p = "rotate" -> conf.avg_rotation # "None"
    [] p \in {"sd_elev", "sd_ens"} -> conf.avg_std_drop > 0
    [] p = "smooth" -> conf.avg_smooth_kernel > KernelThreshold
    [] p = "csv" -> IsOn("avg_save_csv")
    [] p = "nc" -> IsOn("avg_save_netcdf")
    [] p = "avg_n_sd" -> IsOn("avg_plot_avg_n_sd")
    [] p = "mean_vectors" -> IsOn("avg_plot_mean_vectors")
    [] p = "secondary" -> IsOn("avg_plot_secondary_circulation")
    [] p = "uvw_array" -> IsOn("avg_plot_UVW_velocity_array")
    [] p = "flow_summary" -> IsOn("avg_plot_flow_summmary")
    [] p = "show" -> IsOn("avg_show_plots")
    [] p = "close" -> TRUE
    [] OTHER -> FALSE

Called(fn, arg) == Append(calls, [grp |-> gi, fn |-> fn, arg |-> arg])

Written(product, suffix) ==
  Append(files, [grp |-> gi, product |-> product,
                 name |-> FileName(grp_num, suffix)])

\* A plot statement: "if option: fig = plot(...); if avg_save_plots: savefig".
PlotStatement(p, option, fn, suffix) ==
  /\ pc = p
  /\ IF IsOn(option)
       THEN /\ calls' = Called(fn, [title |-> grp_num])
            /\ files' = IF IsOn("avg_save_plots")
                          THEN Written(fn, suffix) ELSE files
       ELSE UNCHANGED <<calls, files>>
  /\ pc' = NextPc(p)
  /\ UNCHANGED <<rest, conf, transects, grps_to_average, gi, grp_num, uvw_i, raised>>

(***************************************************************************)
(* DWR_transect_average, statement by statement.                           *)
(***************************************************************************)
Init ==
  /\ \E i \in 1..Len(Resolutions), rot \in Rotations, sd \in StdDrops,
        k \in SmoothKernels, p \in ToggleProfiles :
       conf = Config(Resolutions[i], rot, sd, k, p)
  /\ transects = <<>>
  /\ grps_to_average = <<>>
  /\ gi = 0
  /\ grp_num = 0
  /\ uvw_i = 0
  /\ pc = "load"
  /\ calls = <<>>
  /\ files = <<>>
  /\ raised = "none"
  /\ g_pc = "idle" /\ g_in = <<>> /\ g_lim = <<>> /\ g = <<>> /\ g_out = <<>>
  /\ a_pc = "idle" /\ a_samples = <<>> /\ a_k = 0 /\ a_acc = <<>>
  /\ a_ddof = 0 /\ a_field = <<>>

\* Lines 75-85: load the transects, group them, reset the group counter.
Load ==
  /\ pc = "load"
  /\ \E ts \in LoadedLists :
       /\ transects' = ts
       /\ grps_to_average' =
            group_adcp_obs_by_spacetime(ts, avg_max_gap_m, avg_max_gap_minutes,
                                        avg_max_group_size)
  /\ grp_num' = 0
  /\ pc' = "for"
  /\ UNCHANGED <<rest, conf, gi, uvw_i, calls, files, raised>>

\* Line 86: the loop takes the next group.
ForNext ==
  /\ pc = "for"
  /\ gi < Len(grps_to_average)
  /\ gi' = gi + 1
  /\ pc' = "xy"
  /\ UNCHANGED <<rest, conf, transects, grps_to_average, grp_num, uvw_i, calls,
                 files, raised>>

\* Line 147: the loop is exhausted.
Finish ==
  /\ pc = "for"
  /\ gi = Len(grps_to_average)
  /\ pc' = "done"
  /\ UNCHANGED <<rest, conf, transects, grps_to_average, gi, grp_num, uvw_i, calls,
                 files, raised>>

\* Lines 87-90.
PlotXY ==
  PlotStatement("xy", "avg_plot_xy", "plot_obs_group_xy_lines", "_xy_lines.png")

\* Average passing the default resolutions instead of the configured ones.
AverageDefaultResolution ==
  /\ pc = "average"
  /\ calls' = Called("average_transects", [dxy |-> 2, dz |-> 25])
  /\ pc' = NextPc("average")
  /\ UNCHANGED <<rest, conf, transects, grps_to_average, gi, grp_num, uvw_i, files,
                 raised>>

\* Line 92.
Average ==
  /\ pc = "average"
  /\ calls' = Called("average_transects",
                     [dxy |-> conf.avg_dxy, dz |-> conf.avg_dz])
  /\ pc' = NextPc("average")
  /\ UNCHANGED <<rest, conf, transects, grps_to_average, gi, grp_num, uvw_i, files,
                 raised>>

\* Lines 93-94.
Rotate ==
  /\ pc = "rotate"
  /\ calls' = IF conf.avg_rotation # "None"
                THEN Called("transect_rotate", [rotation |-> conf.avg_rotation])
                ELSE calls
  /\ pc' = NextPc("rotate")
  /\ UNCHANGED <<rest, conf, transects, grps_to_average, gi, grp_num, uvw_i, files,
                 raised>>

\* One avg.sd_drop(sd=3.0, sd_axis=axis, interp_holes=avg_std_interp) under
\* "if avg_std_drop > 0".
SdDrop(p, axis) ==
  /\ pc = p
  /\ calls' = IF conf.avg_std_drop > 0
                THEN Called("sd_drop",
                            [sd |-> SdDropArg, sd_axis |-> axis,
                             interp_holes |-> IsOn("avg_std_interp")])
                ELSE calls
  /\ pc' = NextPc(p)
  /\ UNCHANGED <<rest, conf, transects, grps_to_average, gi, grp_num, uvw_i, files,
                 raised>>

\* Lines 95-98.
SdDropElevation == SdDrop("sd_elev", "elevation")

\* Lines 95, 99-101.
SdDropEnsemble == SdDrop("sd_ens", "ensemble")

\* Lines 102-103.
Smooth ==
  /\ pc = "smooth"
  /\ calls' = IF conf.avg_smooth_kernel > KernelThreshold
                THEN Called("kernel_smooth", [kernel_size |-> KernelSizeArg])
                ELSE calls
  /\ pc' = NextPc("smooth")
  /\ UNCHANGED <<rest, conf, transects, grps_to_average, gi, grp_num, uvw_i, files,
                 raised>>

\* A writer statement: "if option: write(avg, name)".
WriteStatement(p, option, fn, suffix) ==
  /\ pc = p
  /\ IF IsOn(option)
       THEN /\ calls' = Called(fn, [fname |-> FileName(grp_num, suffix)])
            /\ files' = Written(fn, suffix)
       ELSE UNCHANGED <<calls, files>>
  /\ pc' = NextPc(p)
  /\ UNCHANGED <<rest, conf, transects, grps_to_average, gi, grp_num, uvw_i, raised>>

\* Lines 105-106.
WriteCsv ==
  WriteStatement("csv", "avg_save_csv", "write_csv_velocity", "_velocity.csv")

\* Lines 107-109.
WriteNc == WriteStatement("nc", "avg_save_netcdf", "write_nc", ".nc")

\* Lines 111-116: one turn of the loop over the three components, or the
\* whole statement skipped.
PlotAvgNSd ==
  /\ pc = "avg_n_sd"
  /\ IF IsOn("avg_plot_avg_n_sd")
       THEN /\ calls' = Called("plot_avg_n_sd", [uvw |-> uvw_i])
            /\ files' = IF IsOn("avg_save_plots")
                          THEN Written("plot_avg_n_sd",
                                       "_" \o uvw[uvw_i + 1] \o "_avg_n_sd.png")
                          ELSE files
            /\ IF uvw_i + 1 < NumComponents
                 THEN uvw_i' = uvw_i + 1 /\ pc' = pc
                 ELSE uvw_i' = 0 /\ pc' = NextPc("avg_n_sd")
       ELSE /\ pc' = NextPc("avg_n_sd")
            /\ UNCHANGED <<calls, files, uvw_i>>
  /\ UNCHANGED <<rest, conf, transects, grps_to_average, gi, grp_num, raised>>

\* Lines 118-121.
PlotMeanVectors ==
  PlotStatement("mean_vectors", "avg_plot_mean_vectors",
                "plot_ensemble_mean_vectors", "_mean_velocity.png")

\* Lines 123-127.
PlotSecondaryCirculation ==
  PlotStatement("secondary", "avg_plot_secondary_circulation",
                "plot_secondary_circulation", "_secondary_circulation.png")

\* Lines 129-134.
PlotUVWVelocityArray ==
  PlotStatement("uvw_array", "avg_plot_UVW_velocity_array",
                "plot_UVW_velocity_array", "_UVW_velocity.png")

\* Lines 136-140.
PlotFlowSummary ==
  PlotStatement("flow_summary", "avg_plot_flow_summmary",
                "plot_flow_summmary", "_Flow_Summary.png")

\* Lines 142-143.
Show ==
  /\ pc = "show"
  /\ calls' = IF IsOn("avg_show_plots") THEN Called("show", [n |-> grp_num])
                                        ELSE calls
  /\ pc' = NextPc("show")
  /\ UNCHANGED <<rest, conf, transects, grps_to_average, gi, grp_num, uvw_i, files,
                 raised>>

\* Lines 144-145: close the figures and advance the group counter.
Close ==
  /\ pc = "close"
  /\ calls' = Called("close", [n |-> grp_num])
  /\ grp_num' = GrpNumInc(grp_num)
  /\ pc' = NextPc("close")
  /\ UNCHANGED <<rest, conf, transects, grps_to_average, gi, uvw_i, files, raised>>

\* Raise with the exception caught in the loop body: the group is given up
\* and the loop goes on with the next one.
RaiseSkipsGroup ==
  /\ HasCall(pc)
  /\ raised' = pc
  /\ pc' = IF pc = "load" THEN "crashed" ELSE "for"
  /\ grp_num' = IF pc = "load" THEN grp_num ELSE grp_num + 1
  /\ uvw_i' = 0
  /\ UNCHANGED <<rest, conf, transects, grps_to_average, gi, calls, files>>

\* The call of the current statement raises.  The function holds no try
\* statement, so the exception leaves DWR_transect_average and the run ends.
Raise ==
  /\ HasCall(pc)
  /\ raised' = pc
  /\ pc' = "crashed"
  /\ UNCHANGED <<rest, conf, transects, grps_to_average, gi, grp_num, uvw_i, calls,
                 files>>

Next ==
  \/ Load
  \/ ForNext
  \/ Finish
  \/ PlotXY
  \/ Average
  \/ Rotate
  \/ SdDropElevation
  \/ SdDropEnsemble
  \/ Smooth
  \/ WriteCsv
  \/ WriteNc
  \/ PlotAvgNSd
  \/ PlotMeanVectors
  \/ PlotSecondaryCirculation
  \/ PlotUVWVelocityArray
  \/ PlotFlowSummary
  \/ Show
  \/ Close
  \/ Raise

Spec == Init /\ [][Next]_vars

(***************************************************************************)
(* One call of the grouping engine on its own, over every transect list,   *)
(* order of arrival and setting of the three limits within the bounds.     *)
(***************************************************************************)
GroupInputs ==
  UNION { Arrivals(s) :
            s \in UNION { OrderedLists(n, Positions, TimeGaps)
                          : n \in 0..MaxTransects } }

GapLimitsM == {10, 30}

GapLimitsMinutes == {10, 20}

GroupSizeLimits == {1, 2, avg_max_group_size}

Limits ==
  { [max_gap_m |-> m, max_gap_minutes |-> t, max_group_size |-> k]
    : m \in GapLimitsM, t \in GapLimitsMinutes, k \in GroupSizeLimits }

DriverIdle ==
  /\ conf = Config(Resolutions[1], "Rozovski", 3, 5, DefaultToggles)
  /\ transects = <<>>
  /\ grps_to_average = <<>>
  /\ gi = 0
  /\ grp_num = 0
  /\ uvw_i = 0
  /\ pc = "idle"
  /\ calls = <<>>
  /\ files = <<>>
  /\ raised = "none"

GroupInit ==
  /\ DriverIdle
  /\ g_pc = "start"
  /\ g_in \in GroupInputs
  /\ g_lim \in Limits
  /\ g = <<>>
  /\ g_out = <<>>
  /\ a_pc = "idle" /\ a_samples = <<>> /\ a_k = 0 /\ a_acc = <<>>
  /\ a_ddof = 0 /\ a_field = <<>>

\* The transects are put in time order.
GroupBegin ==
  /\ g_pc = "start"
  /\ g' = GroupStart(g_in)
  /\ g_pc' = "run"
  /\ UNCHANGED <<driver, accumulator, g_in, g_lim, g_out>>

\* A new group is opened with the next transect.
GroupOpen ==
  /\ g_pc = "run"
  /\ g.cur = <<>> /\ g.todo # <<>>
  /\ g' = GroupStep(g, g_lim)
  /\ UNCHANGED <<driver, accumulator, g_pc, g_in, g_lim, g_out>>

\* The next transect joins the open group.
GroupAppend ==
  /\ g_pc = "run"
  /\ g.cur # <<>> /\ g.todo # <<>>
  /\ Extends(g.cur, Head(g.todo), g_lim)
  /\ g' = GroupStep(g, g_lim)
  /\ UNCHANGED <<driver, accumulator, g_pc, g_in, g_lim, g_out>>

\* The open group is closed.
GroupClose ==
  /\ g_pc = "run"
  /\ g.cur # <<>>
  /\ IF g.todo = <<>> THEN TRUE ELSE ~Extends(g.cur, Head(g.todo), g_lim)
  /\ g' = GroupStep(g, g_lim)
  /\ UNCHANGED <<driver, accumulator, g_pc, g_in, g_lim, g_out>>

\* Every transect is grouped: the groups are returned.
GroupReturn ==
  /\ g_pc = "run"
  /\ GroupFinished(g)
  /\ g_out' = g.closed
  /\ g_pc' = "done"
  /\ UNCHANGED <<driver, accumulator, g_in, g_lim, g>>

GroupNext ==
  \/ GroupBegin
  \/ GroupOpen
  \/ GroupAppend
  \/ GroupClose
  \/ GroupReturn

SpecGroup == GroupInit /\ [][GroupNext]_vars

(***************************************************************************)
(* Bin accumulator: the accumulation inside average_transects (spec 4.3),  *)
(* for one group on a grid of 2 x 2 cells.  A sample is one velocity       *)
(* component of one depth bin of one ensemble: its projected distance d,   *)
(* its elevation e, its component c and its value v.  A value is the       *)
(* fraction num/den, or NaN, the missing-value sentinel.                   *)
(***************************************************************************)
NaN == [nan |-> TRUE, num |-> 0, den |-> 1]

Num(n, d) == [nan |-> FALSE, num |-> n, den |-> d]

BinGrid == [x0 |-> 0, dxy |-> 2, nx |-> 2, z0 |-> 0, dz |-> 1, nz |-> 2]

Components == {"U", "W"}

Cells == (1..BinGrid.nx) \X (1..BinGrid.nz)

SampleKinds ==
  { [d |-> d, e |-> e, c |-> c, v |-> v]
    : d \in {2, 3}, e \in {1, 2}, c \in Components, v \in {NaN, Num(0, 1), Num(3, 1)} }

RECURSIVE SampleLists(_)
SampleLists(n) ==
  IF n = 0 THEN {<<>>}
  ELSE { Append(s, k) : s \in SampleLists(n - 1), k \in SampleKinds }

\* The bin of coordinate p among n bins of width w from origin o: the
\* interval that holds p, edges included, a tie going to the lower bin.
BinOf(p, o, w, n) ==
  CHOOSE i \in 1..n : p <= o + i * w /\ (i = 1 \/ p > o + (i - 1) * w)

CellOf(smp) ==
  <<BinOf(smp.d, BinGrid.x0, BinGrid.dxy, BinGrid.nx),
    BinOf(smp.e, BinGrid.z0, BinGrid.dz, BinGrid.nz)>>

EmptyAcc == [cell \in Cells, c \in Components |-> [n |-> 0, sum |-> 0, sq |-> 0]]

\* One sample added to the running count, sum and sum of squares of its
\* cell and component; a missing sample adds nothing.
AccAdd(acc, smp) ==
  IF smp.v.nan THEN acc
  ELSE [acc EXCEPT ![CellOf(smp), smp.c] =
          [n |-> @.n + 1, sum |-> @.sum + smp.v.num,
           sq |-> @.sq + smp.v.num * smp.v.num]]

\* BinResult leaving the cells without samples at zero.
BinResultZeroFill(a, ddof) ==
  IF a.n = 0
    THEN [velocity |-> Num(0, 1), count |-> 0, sd |-> Num(0, 1)]
  ELSE [velocity |-> Num(a.sum, a.n),
        count |-> a.n,
        sd |-> IF a.n - ddof <= 0 THEN NaN
               ELSE Num(a.n * a.sq - a.sum * a.sum, a.n * (a.n - ddof))]

\* The mean, count and variance of one cell and component.  ddof is 0 for
\* the population and 1 for the Bessel-corrected standard deviation.
BinResult(a, ddof) ==
  IF a.n = 0
    THEN [velocity |-> NaN, count |-> 0, sd |-> NaN]
  ELSE [velocity |-> Num(a.sum, a.n),
        count |-> a.n,
        sd |-> IF a.n - ddof <= 0 THEN NaN
               ELSE Num(a.n * a.sq - a.sum * a.sum, a.n * (a.n - ddof))]

AccInit ==
  /\ DriverIdle
  /\ g_pc = "idle" /\ g_in = <<>> /\ g_lim = <<>> /\ g = <<>> /\ g_out = <<>>
  /\ a_pc = "run"
  /\ a_samples \in UNION { SampleLists(n) : n \in 0..MaxSamples }
  /\ a_k = 0
  /\ a_acc = EmptyAcc
  /\ a_ddof \in {0, 1}
  /\ a_field = <<>>

\* The next sample is accumulated.
AccSample ==
  /\ a_pc = "run"
  /\ a_k < Len(a_samples)
  /\ a_acc' = AccAdd(a_acc, a_samples[a_k + 1])
  /\ a_k' = a_k + 1
  /\ UNCHANGED <<driver, engine, a_pc, a_samples, a_ddof, a_field>>

\* Every sample is accumulated: the averaged field is returned.
AccReturn ==
  /\ a_pc = "run"
  /\ a_k = Len(a_samples)
  /\ a_field' = [cell \in Cells, c \in Components |->
                   BinResult(a_acc[cell, c], a_ddof)]
  /\ a_pc' = "done"
  /\ UNCHANGED <<driver, engine, a_samples, a_k, a_acc, a_ddof>>

AccNext ==
  \/ AccSample
  \/ AccReturn

SpecAvg == AccInit /\ [][AccNext]_vars

(***************************************************************************)
(* Properties of the grouping engine (SpecGroup).                          *)
(***************************************************************************)
\* The places <<i, j>> of the returned groups.
Places(groups) ==
  UNION { { <<i, j>> : j \in 1..Len(groups[i]) } : i \in 1..Len(groups) }

C2_Limits ==
  g_pc = "done" =>
    \A i \in 1..Len(g_out) :
      /\ Len(g_out[i]) <= g_lim.max_group_size
      /\ \A j \in 1..Len(g_out[i]) - 1 :
           /\ Abs(g_out[i][j].x - g_out[i][j + 1].x) <= g_lim.max_gap_m
           /\ g_out[i][j + 1].t_start - g_out[i][j].t_end
                <= g_lim.max_gap_minutes

\* A group was closed at the size limit although the next transect was
\* adjacent to its last member.
C2_Witness ==
  /\ g_pc = "done"
  /\ \E i \in 1..Len(g_out) - 1 :
       /\ Len(g_out[i]) = g_lim.max_group_size
       /\ Len(g_out[i]) >= 2
       /\ Adjacent(g_out[i][Len(g_out[i])], g_out[i + 1][1],
                   g_lim.max_gap_m, g_lim.max_gap_minutes)

CallsOf(fn) == { i \in 1..Len(calls) : calls[i].fn = fn }

\* The loop body of group k ran to its last statement.
Completed(k) == \E i \in CallsOf("close") : calls[i].grp = k

OutputCalls ==
  {"write_csv_velocity", "write_nc", "plot_avg_n_sd",
   "plot_ensemble_mean_vectors", "plot_secondary_circulation",
   "plot_UVW_velocity_array", "plot_flow_summmary"}

\* The place of a call in the pipeline of its group: averaging, rotation,
\* outlier rejection along the elevation axis, then along the ensemble axis,
\* smoothing, and the hand-over of the averaged field (0: no place).
Stage(c) ==
  CASE c.fn = "average_transects" -> 1
    [] c.fn = "transect_rotate" -> 2
    [] c.fn = "sd_drop" -> IF c.arg.sd_axis = "elevation" THEN 3 ELSE 4
    [] c.fn = "kernel_smooth" -> 5
    [] c.fn \in OutputCalls -> 6
    [] OTHER -> 0

\* C3 as claimed: when the run has stopped, every group after one whose
\* step failed has been processed.
C3_FailureIsolated ==
  pc \in {"done", "crashed"} =>
    \A k \in 1..Len(grps_to_average) :
      (raised \notin {"none", "load"} /\ k > gi) => Completed(k)

\* C3 as amended: a failing step ends the run.  Once a call has raised, the
\* run is stopped at that statement for good, every group before the
\* failing one has been processed to its end, the failing group has not, and
\* no call was made and no file written for a later group.
C3_FailureHalts ==
  raised # "none" =>
    /\ pc = "crashed"
    /\ ~ENABLED Next
    /\ \A k \in 1..Len(grps_to_average) : Completed(k) <=> k < gi
    /\ \A i \in 1..Len(calls) : calls[i].grp <= gi
    /\ \A i \in 1..Len(files) : files[i].grp <= gi

\* A step of the first of several groups failed after that group had
\* written a file.
C3_Witness ==
  /\ pc = "crashed"
  /\ gi = 1
  /\ Len(grps_to_average) >= 2
  /\ files # <<>>

\* C4: within one group, every call of a pipeline step comes after the
\* calls of the earlier stages (averaging, rotation, elevation-axis
\* rejection, ensemble-axis rejection, smoothing, each at most once), and
\* the averaged field is handed to a writer or plot only after averaging and
\* after every refinement call of the group.
C4_FixedOrder ==
  \A i \in 1..Len(calls) :
    \A j \in (i + 1)..Len(calls) :
      ( /\ calls[i].grp = calls[j].grp
        /\ Stage(calls[i]) > 0
        /\ Stage(calls[j]) > 0 )
      => \/ Stage(calls[i]) < Stage(calls[j])
         \/ Stage(calls[i]) = 6 /\ Stage(calls[j]) = 6

\* All five steps were enabled and ran for a group before its averaged
\* field was written to NetCDF.
C4_Witness ==
  /\ conf.avg_rotation # "None"
  /\ conf.avg_std_drop > 0
  /\ \E n \in CallsOf("write_nc") :
       /\ \E m \in CallsOf("kernel_smooth") :
            m < n /\ calls[m].grp = calls[n].grp
       /\ \E m \in CallsOf("transect_rotate") :
            m < n /\ calls[m].grp = calls[n].grp
       /\ Cardinality({ m \in CallsOf("sd_drop") :
                          m < n /\ calls[m].grp = calls[n].grp }) = 2

\* A configuration error the claim names: a bin resolution that is zero or
\* negative.
BadResolution == conf.avg_dxy <= 0 \/ conf.avg_dz <= 0

\* C5 as claimed: under a zero or negative bin resolution nothing is done
\* for any group: no grid is built, no plot drawn, no file written.
C5_RejectedBeforeAnyGroup ==
  BadResolution => calls = <<>> /\ files = <<>>

\* C5 as amended: the driver does not check the resolutions; it hands
\* avg_dxy and avg_dz unchanged to average_transects for every group, and
\* before the first such call nothing but the source-observation plot of
\* group 0 has been drawn or written.
C5_ResolutionPassedThrough ==
  /\ \A i \in CallsOf("average_transects") :
       calls[i].arg.dxy = conf.avg_dxy /\ calls[i].arg.dz = conf.avg_dz
  /\ CallsOf("average_transects") = {} =>
       /\ \A i \in 1..Len(calls) : calls[i].fn = "plot_obs_group_xy_lines"
       /\ \A i \in 1..Len(files) : files[i].name = "group000_xy_lines.png"
       /\ Len(calls) <= 1 /\ Len(files) <= 1

\* Under a bad resolution a file was written and average_transects was
\* handed the bad value.
C5_Witness ==
  /\ BadResolution
  /\ files # <<>>
  /\ \E i \in CallsOf("average_transects") :
       calls[i].arg.dxy <= 0 \/ calls[i].arg.dz <= 0

\* C6 as claimed: every sd_drop call uses the configured threshold
\* avg_std_drop, and with avg_std_drop = 0 there is no sd_drop call.
C6_ConfiguredThreshold ==
  /\ \A i \in CallsOf("sd_drop") : calls[i].arg.sd = conf.avg_std_drop
  /\ conf.avg_std_drop = 0 => CallsOf("sd_drop") = {}

\* C7 as claimed: every kernel_smooth call uses the configured side length
\* avg_smooth_kernel, a group whose body has run was smoothed when the
\* configured kernel is not 0, and nothing is smoothed when it is 0.
C7_ConfiguredKernel ==
  /\ \A i \in CallsOf("kernel_smooth") :
       calls[i].arg.kernel_size = conf.avg_smooth_kernel
  /\ \A k \in 1..Len(grps_to_average) :
       (Completed(k) /\ conf.avg_smooth_kernel # 0) =>
         \E i \in CallsOf("kernel_smooth") : calls[i].grp = k
  /\ conf.avg_smooth_kernel = 0 => CallsOf("kernel_smooth") = {}

\* The group index as it stands in a file name.
IndexText ==
  <<"000", "001", "002", "003", "004", "005", "006", "007", "008", "009">>

\* C8: every file of the group at position k (counting from 0) is named
\* 'group', then k in three digits, then a separator; no two writes go to
\* the same name; the group counter is the number of groups processed.
C8_UniqueNames ==
  /\ \A i \in 1..Len(files) :
       /\ SubSeq(files[i].name, 1, 8) = "group" \o IndexText[files[i].grp]
       /\ SubSeq(files[i].name, 9, 9) \in {"_", "."}
  /\ \A i, j \in 1..Len(files) : i # j => files[i].name # files[j].name
  /\ grp_num = Cardinality({ k \in 1..Len(grps_to_average) : Completed(k) })

\* Two groups were processed and both wrote several files.
C8_Witness ==
  /\ pc = "done"
  /\ grp_num >= 2
  /\ \E i, j, k \in 1..Len(files) :
       /\ files[i].grp = 1 /\ files[j].grp = 2 /\ files[k].grp = 2
       /\ files[j].product # files[k].product

(***************************************************************************)
(* Properties of the bin accumulator (SpecAvg).                            *)
(***************************************************************************)
\* The samples of the input that belong to a cell and component and are
\* not missing.
Contributing(cell, c) ==
  { i \in 1..Len(a_samples) :
      /\ CellOf(a_samples[i]) = cell
      /\ a_samples[i].c = c
      /\ ~a_samples[i].v.nan }

RECURSIVE SumOf(_)
SumOf(S) ==
  IF S = {} THEN 0
  ELSE LET i == CHOOSE j \in S : TRUE IN a_samples[i].v.num + SumOf(S \ {i})

=============================================================================
